---- MODULE Spec2Model ----
(***************************************************************************)
(* CertifyAI gap-mining engine: the graph of compliance artifacts, the    *)
(* feature extraction (mining.extract_features_for_mining), the rule      *)
(* discovery (mining.discover_rules, on mlxtend's apriori and             *)
(* association_rules) and the exception finder (mining.find_exceptions).   *)
(*                                                                         *)
(* A feature table (pandas DataFrame) is a record                          *)
(*   [columns : set of status columns, has_id : BOOLEAN, rows : Seq(row)]  *)
(* and a row is [id, items], items being the columns that are True on it.  *)
(* Fractions (support, confidence) are kept as [num, den] and compared by  *)
(* cross-multiplication.                                                   *)
(***************************************************************************)
EXTENDS Integers, Sequences, FiniteSets, TLC

VARIABLES
    requirements,   \* ids of the Requirement nodes of the graph
    tests,          \* ids of the Test nodes
    commits,        \* ids of the CodeCommit nodes
    risks,          \* ids of the Risk nodes
    verifies,       \* VERIFIES edges, <<test, requirement>>
    implements,     \* IMPLEMENTS edges, <<commit, requirement>>
    mitigates,      \* MITIGATES edges, <<requirement, risk>>
    df,             \* the feature table of the mining run
    text_map,       \* id -> text side mapping of the mining run
    rules,          \* result of discover_rules: [raised, rules]
    exceptions,     \* result of find_exceptions: [raised, gaps]
    pc,             \* position of the mining run
    hashseed,       \* iteration order of string sets in this interpreter process
    previous,       \* rules and gap records of the run before the last one
    suggestions,    \* st.session_state.suggestions
    patterns,       \* the patterns of the last generate_suggestions call
    llm_out,        \* what llm.invoke did for each of these patterns
    store           \* a graph store as lists of nodes and edges

vars == <<requirements, tests, commits, risks, verifies, implements,
          mitigates, df, text_map, rules, exceptions, pc, hashseed, previous,
          suggestions, patterns, llm_out, store>>

graph == <<requirements, tests, commits, risks, verifies, implements, mitigates>>

process == <<hashseed, previous>>

bridge == <<suggestions, patterns, llm_out, store>>

----------------------------------------------------------------------------
(* Bounds of the model *)

MaxRows == 3
MaxReqs == 2
MaxTests == 2

ReqIds == 1..MaxReqs
TestIds == 1..MaxTests
CommitIds == {"K1"}
RiskIds == {"X1"}

\* the value of an OPTIONAL MATCH variable that matched nothing
NullTest == 0
NullNode == "NULL"

----------------------------------------------------------------------------
(* The feature vocabulary *)

TestStatus == {"HAS_TEST", "NO_TEST"}
CodeStatus == {"HAS_CODE", "NO_CODE"}
RiskStatus == {"HAS_RISK", "NO_RISK"}
Items == TestStatus \cup CodeStatus \cup RiskStatus

\* min_support=0.01 and min_threshold=0.5 as fractions
MinSupportNum == 1
MinSupportDen == 100
MinConfNum == 1
MinConfDen == 2

\* Position of a column in te.columns_ (sorted(unique_items))
ColRank(c) ==
    CASE c = "HAS_CODE" -> 1
      [] c = "HAS_RISK" -> 2
      [] c = "HAS_TEST" -> 3
      [] c = "NO_CODE"  -> 4
      [] c = "NO_RISK"  -> 5
      [] c = "NO_TEST"  -> 6

RECURSIVE Pow2(_)
Pow2(k) == IF k = 0 THEN 1 ELSE 2 * Pow2(k - 1)

\* Orders itemsets of one size as tuples of ascending column indices:
\* the lexicographically smaller tuple has the larger mask.
Mask(S) ==
    LET RECURSIVE Sum(_)
        Sum(T) == IF T = {} THEN 0
                  ELSE LET c == CHOOSE x \in T : TRUE
                       IN Pow2(6 - ColRank(c)) + Sum(T \ {c})
    IN Sum(S)

\* SortItemsets from the last tuple to the first
RECURSIVE SortItemsets_reversed(_)
SortItemsets_reversed(SS) ==
    IF SS = {} THEN <<>>
    ELSE LET m == CHOOSE S \in SS : \A T \in SS : Mask(S) <= Mask(T)
         IN <<m>> \o SortItemsets_reversed(SS \ {m})

RECURSIVE SortItemsets(_)
SortItemsets(SS) ==
    IF SS = {} THEN <<>>
    ELSE LET m == CHOOSE S \in SS : \A T \in SS : Mask(S) >= Mask(T)
         IN <<m>> \o SortItemsets(SS \ {m})

\* String hashes are randomized per interpreter process, so the iteration
\* order of a set of column names is fixed within a process and may differ
\* between processes; two orders stand for the orders a process may have.
HashOrders == {"ascending", "descending"}

\* list(frozenset): the items of a set as a list, in iteration order
RECURSIVE ItemList(_)
ItemList(S) ==
    IF S = {} THEN <<>>
    ELSE LET c == CHOOSE x \in S : \A y \in S :
                     IF hashseed = "ascending" THEN ColRank(x) <= ColRank(y)
                     ELSE ColRank(x) >= ColRank(y)
         IN <<c>> \o ItemList(S \ {c})

RECURSIVE SeqConcat(_)
SeqConcat(ss) == IF ss = <<>> THEN <<>> ELSE Head(ss) \o SeqConcat(Tail(ss))

Range(s) == {s[i] : i \in DOMAIN s}

----------------------------------------------------------------------------
(* TransactionEncoder + DataFrame construction (mining.py 42-48) *)

\* te.fit(transactions).transform(transactions): the columns are the items
\* observed in at least one transaction
\* TransactionEncoder with one column per status value of the vocabulary
TransactionEncoder_fixed(transactions) == Items

TransactionEncoder(transactions) == UNION Range(transactions)

MakeTable(ids, transactions) ==
    [columns |-> TransactionEncoder(transactions),
     has_id  |-> TRUE,
     rows    |-> [i \in DOMAIN transactions |->
                    [id |-> ids[i], items |-> transactions[i]]]]

----------------------------------------------------------------------------
(* mlxtend.frequent_patterns.apriori(df, min_support=0.01, use_colnames=True) *)

\* number of rows on which every column of S is True
SupportCount(rows, S) ==
    Cardinality({i \in DOMAIN rows : S \subseteq rows[i].items})

\* IsFrequent with the threshold excluded (support > min_support)
IsFrequent_strict(rows, S) ==
    /\ Len(rows) > 0
    /\ SupportCount(rows, S) * MinSupportDen > MinSupportNum * Len(rows)

\* support >= min_support, support = count / n_rows (nan when n_rows = 0)
IsFrequent(rows, S) ==
    /\ Len(rows) > 0
    /\ SupportCount(rows, S) * MinSupportDen >= MinSupportNum * Len(rows)

\* generate_new_combinations: extend each itemset of the previous level by
\* an item of the previous level greater than its greatest item
NewCombinations(L) ==
    UNION {{S \cup {c} : c \in {x \in UNION L :
                                    \A y \in S : ColRank(x) > ColRank(y)}} :
           S \in L}

RECURSIVE AprioriLevels(_, _)
AprioriLevels(rows, L) ==
    IF L = {} THEN <<>>
    ELSE LET next == {S \in NewCombinations(L) : IsFrequent(rows, S)}
         IN SortItemsets(L) \o AprioriLevels(rows, next)

\* the frequent itemsets in the order of the result frame, each with the
\* count of its supporting rows
apriori(table) ==
    LET level1 == {{c} : c \in {x \in table.columns : IsFrequent(table.rows, {x})}}
        sets == AprioriLevels(table.rows, level1)
    IN [i \in DOMAIN sets |->
          [itemsets |-> sets[i], count |-> SupportCount(table.rows, sets[i])]]

----------------------------------------------------------------------------
(* mlxtend.frequent_patterns.association_rules(fi, metric="confidence",    *)
(*                                             min_threshold=0.5)          *)

\* frequent_items_dict[itemset]
SupportOf(fi, S) == (CHOOSE e \in Range(fi) : e.itemsets = S).count

\* antecedents of the splits of itemset k: combinations(k, r) for
\* r = len(k)-1 down to 1
RECURSIVE SortAntecedents(_)
SortAntecedents(AA) ==
    IF AA = {} THEN <<>>
    ELSE LET m == CHOOSE A \in AA : \A B \in AA :
                     \/ Cardinality(A) > Cardinality(B)
                     \/ Cardinality(A) = Cardinality(B) /\ Mask(A) >= Mask(B)
         IN <<m>> \o SortAntecedents(AA \ {m})

\* Confidence divided by the support of the consequent
Confidence_of_consequent(fi, A, k) ==
    [num |-> SupportOf(fi, k), den |-> SupportOf(fi, k \ A)]

Confidence(fi, A, k) == [num |-> SupportOf(fi, k), den |-> SupportOf(fi, A)]

\* ConfidenceAtLeastMin comparing the joint support, not the ratio
ConfidenceAtLeastMin_joint(conf) == conf.num * MinConfDen >= MinConfNum

ConfidenceAtLeastMin(conf) == conf.num * MinConfDen >= MinConfNum * conf.den

RulesOfItemset(fi, n, k) ==
    LET ants == SortAntecedents((SUBSET k) \ {{}, k})
        all == [i \in DOMAIN ants |->
                  [antecedents |-> ants[i],
                   consequents |-> k \ ants[i],
                   support     |-> [num |-> SupportOf(fi, k), den |-> n],
                   confidence  |-> Confidence(fi, ants[i], k)]]
    IN SelectSeq(all, LAMBDA r : ConfidenceAtLeastMin(r.confidence))

Raised == [raised |-> TRUE, rules |-> <<>>]
EmptyFrame == [raised |-> FALSE, rules |-> <<>>]

\* raises ValueError when the frame of frequent itemsets is empty
association_rules(fi, n) ==
    IF fi = <<>> THEN Raised
    ELSE [raised |-> FALSE,
          rules |-> SeqConcat([i \in DOMAIN fi |->
                       IF Cardinality(fi[i].itemsets) < 2 THEN <<>>
                       ELSE RulesOfItemset(fi, n, fi[i].itemsets)])]

----------------------------------------------------------------------------
(* mining.discover_rules *)

\* rules['consequents'].astype(str): the text names the items of the set
FrozensetStr(S) == <<"frozenset">> \o ItemList(S)

\* discover_rules without the target filter
discover_rules_unfiltered(table) ==
    IF ~table.has_id THEN Raised
    ELSE
    LET frequent_itemsets == apriori(table)
    IN IF frequent_itemsets = <<>> THEN EmptyFrame
       ELSE association_rules(frequent_itemsets, Len(table.rows))

\* discover_rules without the guard on an empty frame of itemsets
discover_rules_unguarded(table) ==
    IF ~table.has_id THEN Raised
    ELSE
    LET all_rules == association_rules(apriori(table), Len(table.rows))
    IN IF all_rules.raised THEN Raised
       ELSE [raised |-> FALSE,
             rules |-> SelectSeq(all_rules.rules, LAMBDA r :
                          FrozensetStr(r.consequents) = <<"frozenset", "HAS_TEST">>)]

\* DfAfterDrop for a drop made in place
DfAfterDrop_inplace(table) == [table EXCEPT !.has_id = FALSE]

\* the frame the caller holds after df.drop(columns=['id']): drop returns a
\* new frame and leaves its argument as it was
DfAfterDrop(table) == table

discover_rules(table) ==
    IF ~table.has_id THEN Raised                     \* df.drop(columns=['id'])
    ELSE
    LET frequent_itemsets == apriori(table)
    IN IF frequent_itemsets = <<>> THEN EmptyFrame
       ELSE
       LET all_rules == association_rules(frequent_itemsets, Len(table.rows))
       IN IF all_rules.raised THEN Raised
          ELSE IF all_rules.rules = <<>> THEN EmptyFrame
          ELSE
          LET rules_about_testing ==
                SelectSeq(all_rules.rules, LAMBDA r :
                    FrozensetStr(r.consequents) = <<"frozenset", "HAS_TEST">>)
          IN IF rules_about_testing = <<>> THEN EmptyFrame
             ELSE [raised |-> FALSE, rules |-> rules_about_testing]

----------------------------------------------------------------------------
(* mining.find_exceptions *)

\* FilterTrue that tests the first antecedent item only
FilterTrue_first(table, rws, items) ==
    IF items = <<>> THEN rws
    ELSE SelectSeq(rws, LAMBDA r : Head(items) \in r.items)

\* df_antecedent = df_antecedent[df_antecedent[item] == True], for each
\* item that is a column of df
RECURSIVE FilterTrue(_, _, _)
FilterTrue(table, rws, items) ==
    IF items = <<>> THEN rws
    ELSE LET item == Head(items)
             kept == IF item \in table.columns
                     THEN SelectSeq(rws, LAMBDA r : item \in r.items)
                     ELSE rws
         IN FilterTrue(table, kept, Tail(items))

\* FilterFalse that keeps the rows on which the consequent holds
FilterFalse_kept_true(table, rws, items) ==
    IF items = <<>> THEN rws
    ELSE SelectSeq(rws, LAMBDA r : \A x \in Range(items) : x \in r.items)

\* df_violation = df_violation[df_violation[item] == False], for each
\* item that is a column of df
RECURSIVE FilterFalse(_, _, _)
FilterFalse(table, rws, items) ==
    IF items = <<>> THEN rws
    ELSE LET item == Head(items)
             kept == IF item \in table.columns
                     THEN SelectSeq(rws, LAMBDA r : item \notin r.items)
                     ELSE rws
         IN FilterFalse(table, kept, Tail(items))

ViolatedRuleText(antecedents, consequents) ==
    <<"Rule: IF", antecedents, "THEN", consequents>>

\* ExceptionsOfRule reporting every row that matches the antecedent
ExceptionsOfRule_antecedent(table, rule) ==
    LET antecedents == ItemList(rule.antecedents)
        consequents == ItemList(rule.consequents)
        df_antecedent == FilterTrue(table, table.rows, antecedents)
    IN [i \in DOMAIN df_antecedent |->
          [id |-> df_antecedent[i].id,
           violated_rule |-> ViolatedRuleText(antecedents, consequents),
           confidence |-> rule.confidence]]

\* the gap records of one rule, one per violating row
ExceptionsOfRule(table, rule) ==
    LET antecedents == ItemList(rule.antecedents)
        consequents == ItemList(rule.consequents)
        df_antecedent == FilterTrue(table, table.rows, antecedents)
        df_violation == FilterFalse(table, df_antecedent, consequents)
    IN [i \in DOMAIN df_violation |->
          [id |-> df_violation[i].id,
           violated_rule |-> ViolatedRuleText(antecedents, consequents),
           confidence |-> rule.confidence]]

\* find_exceptions keeping one gap record per identifier
find_exceptions_dedup(table, rls) ==
    LET gaps == SeqConcat([i \in DOMAIN rls |-> ExceptionsOfRule(table, rls[i])])
        first == {i \in DOMAIN gaps : \A j \in 1..(i - 1) : gaps[j].id # gaps[i].id}
        RECURSIVE Keep(_)
        Keep(i) == IF i > Len(gaps) THEN <<>>
                   ELSE (IF i \in first THEN <<gaps[i]>> ELSE <<>>) \o Keep(i + 1)
    IN [raised |-> gaps # <<>> /\ ~table.has_id,
        gaps |-> IF ~table.has_id THEN <<>> ELSE Keep(1)]

\* find_exceptions refusing a rule that names a column the table lacks
find_exceptions_strict(table, rls) ==
    LET gaps == SeqConcat([i \in DOMAIN rls |-> ExceptionsOfRule(table, rls[i])])
        absent == \E i \in DOMAIN rls :
                     ~((rls[i].antecedents \cup rls[i].consequents) \subseteq table.columns)
    IN IF absent \/ (gaps # <<>> /\ ~table.has_id)
       THEN [raised |-> TRUE, gaps |-> <<>>]
       ELSE [raised |-> FALSE, gaps |-> gaps]

find_exceptions(table, rls) ==
    LET gaps == SeqConcat([i \in DOMAIN rls |-> ExceptionsOfRule(table, rls[i])])
    IN IF gaps # <<>> /\ ~table.has_id              \* violation['id']
       THEN [raised |-> TRUE, gaps |-> <<>>]
       ELSE [raised |-> FALSE, gaps |-> gaps]

----------------------------------------------------------------------------
(* mining.extract_features_for_mining *)

Text(r) == <<"text of", r>>

\* OptionalMatch as a plain MATCH
OptionalMatch_plain(matches, null) == matches

\* OPTIONAL MATCH: the matches, or one null binding when there is none
OptionalMatch(matches, null) == IF matches = {} THEN {null} ELSE matches

\* the bindings (t, c, risk) of the three OPTIONAL MATCH clauses for r:
\* each clause extends every binding of the clause before it
Bindings(g, r) ==
    OptionalMatch({t \in g.tests : <<t, r>> \in g.verifies}, NullTest)
      \X OptionalMatch({c \in g.commits : <<c, r>> \in g.implements}, NullNode)
      \X OptionalMatch({k \in g.risks : <<r, k>> \in g.mitigates}, NullNode)

\* Record with risk_status read from the commit binding
Record_risk_from_commit(r, b) ==
    [id |-> r,
     text |-> Text(r),
     test_status |-> IF b[1] # NullTest THEN "HAS_TEST" ELSE "NO_TEST",
     code_status |-> IF b[2] # NullNode THEN "HAS_CODE" ELSE "NO_CODE",
     risk_status |-> IF b[2] # NullNode THEN "HAS_RISK" ELSE "NO_RISK"]

\* the RETURN clause, for one binding
Record(r, b) ==
    [id |-> r,
     text |-> Text(r),
     test_status |-> IF b[1] # NullTest THEN "HAS_TEST" ELSE "NO_TEST",
     code_status |-> IF b[2] # NullNode THEN "HAS_CODE" ELSE "NO_CODE",
     risk_status |-> IF b[3] # NullNode THEN "HAS_RISK" ELSE "NO_RISK"]

RECURSIVE RecordsOf(_, _)
RecordsOf(r, bs) ==
    IF bs = {} THEN <<>>
    ELSE LET b == CHOOSE x \in bs : TRUE
         IN <<Record(r, b)>> \o RecordsOf(r, bs \ {b})

\* run_query(driver, query): the records of all requirements
RECURSIVE QueryRecords(_, _)
QueryRecords(g, rs) ==
    IF rs = {} THEN <<>>
    ELSE LET r == CHOOSE x \in rs : \A y \in rs : x <= y
         IN RecordsOf(r, Bindings(g, r)) \o QueryRecords(g, rs \ {r})

\* TextMapOf filled from the records of tested requirements only
TextMapOf_tested(data) ==
    {<<data[i].id, data[i].text>> :
        i \in {j \in DOMAIN data : data[j].test_status = "HAS_TEST"}}

\* text_map[record['id']] = record['text'] for every record: the dict as
\* its set of (key, value) pairs
TextMapOf(data) == {<<data[i].id, data[i].text>> : i \in DOMAIN data}

extract_features_for_mining(g) ==
    LET data == QueryRecords(g, g.requirements)
        transactions == [i \in DOMAIN data |->
                           {data[i].test_status, data[i].code_status,
                            data[i].risk_status}]
        ids == [i \in DOMAIN data |-> data[i].id]
    IN [df |-> MakeTable(ids, transactions),
        text_map |-> TextMapOf(data)]

----------------------------------------------------------------------------
(* llm.get_llm_suggestion and suggestions.generate_suggestions.            *)
(* A text is kept as the list of its pieces between commas; a piece is a    *)
(* record [kind, n]. response.content.strip() removes outer blanks only,    *)
(* which the pieces do not carry.                                           *)

TestIdField(t) == [kind |-> "test_id", n |-> t]
NameField == [kind |-> "test_name", n |-> 0]
StatusField == [kind |-> "PENDING", n |-> 0]
ProseField == [kind |-> "prose", n |-> 0]
ExceptionField(k) == [kind |-> "exception", n |-> k]

\* "Test_ID,Test_Name,Status" as the prompt asks for it
Proposal(t) == <<TestIdField(t), NameField, StatusField>>

\* what llm.invoke may do: answer with the asked line or with a sentence
\* without commas, or raise with a message without commas (a timeout) or
\* with commas (the API's error body, a dict of three entries)
LLMResponses ==
    {[ok |-> TRUE, content |-> Proposal(t)] : t \in TestIds}
      \cup {[ok |-> TRUE, content |-> <<ProseField>>],
            [ok |-> FALSE, content |-> <<ExceptionField(1)>>],
            [ok |-> FALSE, content |-> <<ExceptionField(1), ExceptionField(2),
                                         ExceptionField(3)>>]}

\* f"Error: Could not get response from LLM. {e}": the prefix joins the
\* first piece of the message
ErrorText(e) == [e EXCEPT ![1] = [kind |-> "Error: Could not get response from LLM.",
                                  n |-> e[1].n]]

get_llm_suggestion(response) ==
    IF response.ok THEN response.content ELSE ErrorText(response.content)

\* str.split(',', 2): at most three parts, the third keeping its commas
Split2(csv) ==
    IF Len(csv) <= 2 THEN [i \in DOMAIN csv |-> <<csv[i]>>]
    ELSE << <<csv[1]>>, <<csv[2]>>, SubSeq(csv, 3, Len(csv)) >>

\* one turn of the loop of generate_suggestions: the record appended, or
\* nothing when the unpacking into three names raised
SuggestionOf(pattern, response) ==
    LET parts == Split2(get_llm_suggestion(response))
    IN IF Len(parts) # 3 THEN <<>>
       ELSE <<[req_id |-> pattern.id,
               req_text |-> pattern.text,
               test_id |-> parts[1],
               test_name |-> parts[2],
               status |-> parts[3]]>>

generate_suggestions(pats, responses) ==
    SeqConcat([i \in DOMAIN pats |-> SuggestionOf(pats[i], responses[i])])

----------------------------------------------------------------------------
(* suggestions.find_unverified_req_patterns *)

\* the rows of a query as a list, in ascending id order
RECURSIVE RowsById(_)
RowsById(ids) ==
    IF ids = {} THEN <<>>
    ELSE LET m == CHOOSE x \in ids : \A y \in ids : x <= y
         IN <<[id |-> m, text |-> Text(m)]>> \o RowsById(ids \ {m})

\* MATCH (r:Requirement) WHERE NOT (r)<-[:VERIFIES]-(:Test)
find_unverified_req_patterns(g) ==
    RowsById({r \in g.requirements :
                 ~\E t \in g.tests : <<t, r>> \in g.verifies})

----------------------------------------------------------------------------
(* suggestions.apply_suggestion_to_graph on a store of nodes and edges.    *)
(* A node is [label, id, name, status]; an edge is [from, to], the         *)
(* positions of a Test node and of a Requirement node in the node list.     *)

EmptyStore == [nodes |-> <<>>, edges |-> <<>>]
NoValue == <<>>

\* the identifier a Test node gets from the text of a suggestion: the
\* number of the test it names, or one more identifier for any other text
OtherTestId == MaxTests + 1

TestKey(text) ==
    IF Len(text) = 1 /\ text[1].kind = "test_id" THEN text[1].n ELSE OtherTestId

MatchNodes(nodes, label, id) ==
    {i \in DOMAIN nodes : nodes[i].label = label /\ nodes[i].id = id}

\* MERGE (t:Test {id: $test_id})
MergeTest(nodes, id) ==
    IF MatchNodes(nodes, "Test", id) # {} THEN nodes
    ELSE Append(nodes, [label |-> "Test", id |-> id, name |-> NoValue, status |-> NoValue])

\* SET t.name = $test_name, t.status = $status on every node bound to t
SetTest(nodes, id, name, status) ==
    [i \in DOMAIN nodes |->
        IF i \in MatchNodes(nodes, "Test", id)
        THEN [nodes[i] EXCEPT !.name = name, !.status = status]
        ELSE nodes[i]]

\* MergeVerifies as CREATE (t)-[:VERIFIES]->(r)
MergeVerifies_create(edges, t, r) == Append(edges, [from |-> t, to |-> r])

\* MERGE (t)-[:VERIFIES]->(r) for one binding of t and r
MergeVerifies(edges, t, r) ==
    IF \E i \in DOMAIN edges : edges[i] = [from |-> t, to |-> r] THEN edges
    ELSE Append(edges, [from |-> t, to |-> r])

\* the MERGE of the second query, run for every binding of the two MATCHes
RECURSIVE MergeVerifiesAll(_, _)
MergeVerifiesAll(edges, bindings) ==
    IF bindings = {} THEN edges
    ELSE LET b == CHOOSE x \in bindings :
                     \A y \in bindings : x[1] < y[1] \/ (x[1] = y[1] /\ x[2] <= y[2])
         IN MergeVerifiesAll(MergeVerifies(edges, b[1], b[2]), bindings \ {b})

apply_suggestion_to_graph(st, suggestion) ==
    LET test_id == TestKey(suggestion.test_id)
        merged == MergeTest(st.nodes, test_id)
        nodes == SetTest(merged, test_id, suggestion.test_name, suggestion.status)
        bindings == MatchNodes(nodes, "Test", test_id)
                      \X MatchNodes(nodes, "Requirement", suggestion.req_id)
    IN [nodes |-> nodes, edges |-> MergeVerifiesAll(st.edges, bindings)]

\* The graph of the dashboard as a store, and back. MERGE in the parsers
\* and the uniqueness constraints of create_graph_constraints leave one
\* node per (label, id) and one VERIFIES edge per pair.
RECURSIVE Ascending(_)
Ascending(S) ==
    IF S = {} THEN <<>>
    ELSE LET m == CHOOSE x \in S : \A y \in S : x <= y
         IN <<m>> \o Ascending(S \ {m})

LoadedValue == <<[kind |-> "loaded", n |-> 0]>>

Position(nodes, label, id) == CHOOSE i \in DOMAIN nodes :
                                 nodes[i].label = label /\ nodes[i].id = id

StoreOf(g) ==
    LET rs == Ascending(g.requirements)
        ts == Ascending(g.tests)
        nodes == [i \in DOMAIN rs |-> [label |-> "Requirement", id |-> rs[i],
                                       name |-> NoValue, status |-> NoValue]]
                 \o [i \in DOMAIN ts |-> [label |-> "Test", id |-> ts[i],
                                          name |-> LoadedValue, status |-> LoadedValue]]
        bindings == {<<Position(nodes, "Test", e[1]),
                       Position(nodes, "Requirement", e[2])>> : e \in g.verifies}
    IN [nodes |-> nodes, edges |-> MergeVerifiesAll(<<>>, bindings)]

TestsOf(st) == {st.nodes[i].id : i \in {j \in DOMAIN st.nodes :
                                            st.nodes[j].label = "Test"}}

VerifiesOf(st) == {<<st.nodes[st.edges[i].from].id, st.nodes[st.edges[i].to].id>> :
                      i \in DOMAIN st.edges}

----------------------------------------------------------------------------
(* The dashboard (app.py): loading a project and the mining run *)

Graph ==
    [requirements |-> requirements, tests |-> tests, commits |-> commits,
     risks |-> risks, verifies |-> verifies, implements |-> implements,
     mitigates |-> mitigates]

EmptyTable == [columns |-> {}, has_id |-> TRUE, rows |-> <<>>]
NoGaps == [raised |-> FALSE, gaps |-> <<>>]
NoRun == [rules |-> <<>>, gaps |-> <<>>]

Init ==
    /\ requirements = {} /\ tests = {} /\ commits = {} /\ risks = {}
    /\ verifies = {} /\ implements = {} /\ mitigates = {}
    /\ df = EmptyTable
    /\ text_map = {}
    /\ rules = EmptyFrame
    /\ exceptions = NoGaps
    /\ pc = "idle"
    /\ hashseed \in HashOrders
    /\ previous = NoRun
    /\ suggestions = <<>> /\ patterns = <<>> /\ llm_out = <<>>
    /\ store = EmptyStore

Loading == pc \in {"load_reqs", "load_tests", "load_risks", "load_commits"}

\* run_golden_set_parsers / run_custom_parsers, first step: clear_database
\* and create_graph_constraints. The script's locals of an earlier run are
\* gone.
StartLoad ==
    /\ ~Loading
    /\ requirements' = {} /\ tests' = {} /\ commits' = {} /\ risks' = {}
    /\ verifies' = {} /\ implements' = {} /\ mitigates' = {}
    /\ df' = EmptyTable
    /\ text_map' = {}
    /\ rules' = EmptyFrame
    /\ exceptions' = NoGaps
    /\ pc' = "load_reqs"
    /\ patterns' = <<>>
    /\ llm_out' = <<>>
    /\ UNCHANGED process
    /\ UNCHANGED <<suggestions, store>>

\* parse_reqs, one matching line: MERGE (r:Requirement {id: $id})
ParseReqLine ==
    /\ pc = "load_reqs"
    /\ \E r \in ReqIds \ requirements :
          requirements' = requirements \cup {r}
    /\ UNCHANGED process
    /\ UNCHANGED bridge
    /\ UNCHANGED <<tests, commits, risks, verifies, implements, mitigates,
                   df, text_map, rules, exceptions, pc>>

\* parse_tests, one row of a file that lists each test once:
\* MERGE the Test, then MERGE the VERIFIES link if the requirement exists
ParseTestRow ==
    /\ pc = "load_tests"
    /\ \E t \in TestIds \ tests, r \in ReqIds :
          /\ tests' = tests \cup {t}
          /\ verifies' = IF r \in requirements
                          THEN verifies \cup {<<t, r>>} ELSE verifies
    /\ UNCHANGED process
    /\ UNCHANGED bridge
    /\ UNCHANGED <<requirements, commits, risks, implements, mitigates,
                   df, text_map, rules, exceptions, pc>>

\* parse_risks, one row of a file that lists each risk once
ParseRiskRow ==
    /\ pc = "load_risks"
    /\ \E k \in RiskIds \ risks, r \in ReqIds :
          /\ risks' = risks \cup {k}
          /\ mitigates' = IF r \in requirements
                           THEN mitigates \cup {<<r, k>>} ELSE mitigates
    /\ UNCHANGED process
    /\ UNCHANGED bridge
    /\ UNCHANGED <<requirements, tests, commits, verifies, implements,
                   df, text_map, rules, exceptions, pc>>

\* _parse_commits, one commit whose message names a requirement
ParseCommit ==
    /\ pc = "load_commits"
    /\ \E c \in CommitIds \ commits, r \in ReqIds :
          /\ commits' = commits \cup {c}
          /\ implements' = IF r \in requirements
                            THEN implements \cup {<<c, r>>} ELSE implements
    /\ UNCHANGED process
    /\ UNCHANGED bridge
    /\ UNCHANGED <<requirements, tests, risks, verifies, mitigates,
                   df, text_map, rules, exceptions, pc>>

\* the end of one parser's loop: the next parser starts, or the load ends
NextParser ==
    /\ Loading
    /\ pc' = CASE pc = "load_reqs"    -> "load_tests"
                [] pc = "load_tests"   -> "load_risks"
                [] pc = "load_risks"   -> "load_commits"
                [] pc = "load_commits" -> "idle"
    /\ UNCHANGED process
    /\ UNCHANGED bridge
    /\ UNCHANGED <<graph, df, text_map, rules, exceptions>>

\* df.empty
IsEmptyFrame(table) == table.rows = <<>>

\* text_map[exc['id']]
HasKey(tm, id) == \E e \in tm : e[1] = id
Lookup(tm, id) == (CHOOSE e \in tm : e[1] = id)[2]

\* patterns_for_llm
PatternsForLLM(tm, gaps) ==
    [i \in DOMAIN gaps |-> [id |-> gaps[i].id, text |-> Lookup(tm, gaps[i].id)]]

\* the answers of the service to the calls of one generate_suggestions run:
\* one answer per requirement text, given again when the text is sent again
Replies(pats) ==
    {[i \in DOMAIN pats |-> reply[pats[i].id]] :
        reply \in [{pats[i].id : i \in DOMAIN pats} -> LLMResponses]}

\* the "Discover Gaps with Data Mining" button
DiscoverGapsMining ==
    /\ ~Loading
    /\ \E ex \in {extract_features_for_mining(Graph)} :
       \E rl \in {discover_rules(ex.df)} :
       \E after \in {IF IsEmptyFrame(ex.df) THEN ex.df ELSE DfAfterDrop(ex.df)} :
       \E exc \in {find_exceptions(after, rl.rules)} :
       /\ df' = after
       /\ text_map' = ex.text_map
       /\ IF IsEmptyFrame(ex.df)
          THEN /\ rules' = EmptyFrame
               /\ exceptions' = NoGaps
               /\ pc' = "aborted"
               /\ UNCHANGED <<suggestions, patterns, llm_out>>
          ELSE /\ rules' = rl
               /\ IF rl.raised \/ rl.rules = <<>>
                  THEN /\ exceptions' = NoGaps
                       /\ pc' = IF rl.raised THEN "failed" ELSE "no_rules"
                       /\ UNCHANGED <<suggestions, patterns, llm_out>>
                  ELSE /\ exceptions' = exc
                       /\ IF exc.raised
                             \/ \E i \in DOMAIN exc.gaps : ~HasKey(ex.text_map, exc.gaps[i].id)
                          THEN /\ pc' = "failed"
                               /\ UNCHANGED <<suggestions, patterns, llm_out>>
                          ELSE IF exc.gaps = <<>>
                          THEN /\ pc' = "no_exceptions"
                               /\ UNCHANGED <<suggestions, patterns, llm_out>>
                          ELSE /\ pc' = "gaps"
                               /\ patterns' = PatternsForLLM(ex.text_map, exc.gaps)
                               /\ \E responses \in Replies(PatternsForLLM(ex.text_map, exc.gaps)) :
                                     /\ llm_out' = responses
                                     /\ suggestions' =
                                           generate_suggestions(
                                              PatternsForLLM(ex.text_map, exc.gaps), responses)
       /\ UNCHANGED graph
       /\ UNCHANGED process
       /\ UNCHANGED store

\* the "Find & Fix Simple Gaps" button; the script runs again, the locals of
\* the mining run are gone
FindSimpleGaps ==
    /\ ~Loading
    /\ \E pats \in {find_unverified_req_patterns(Graph)} :
          IF pats = <<>>
          THEN /\ pc' = "compliant"
               /\ patterns' = <<>>
               /\ llm_out' = <<>>
               /\ UNCHANGED suggestions
          ELSE /\ pc' = "simple_gaps"
               /\ patterns' = pats
               /\ \E responses \in Replies(pats) :
                     /\ llm_out' = responses
                     /\ suggestions' = generate_suggestions(pats, responses)
    /\ df' = EmptyTable
    /\ text_map' = {}
    /\ rules' = EmptyFrame
    /\ exceptions' = NoGaps
    /\ UNCHANGED graph
    /\ UNCHANGED process
    /\ UNCHANGED store

\* suggestions.pop(i)
Pop(list, i) == SubSeq(list, 1, i - 1) \o SubSeq(list, i + 1, Len(list))

\* the "Approve Suggestion" button of suggestion i: the suggestion is
\* applied to the graph and leaves the list, then the script runs again
ApproveSuggestion ==
    /\ ~Loading
    /\ \E i \in DOMAIN suggestions :
          /\ \E st \in {apply_suggestion_to_graph(StoreOf(Graph), suggestions[i])} :
                /\ tests' = TestsOf(st)
                /\ verifies' = VerifiesOf(st)
          /\ suggestions' = Pop(suggestions, i)
    /\ pc' = "approved"
    /\ df' = EmptyTable
    /\ text_map' = {}
    /\ rules' = EmptyFrame
    /\ exceptions' = NoGaps
    /\ patterns' = <<>>
    /\ llm_out' = <<>>
    /\ UNCHANGED <<requirements, commits, risks, implements, mitigates>>
    /\ UNCHANGED process
    /\ UNCHANGED store

Next ==
    \/ StartLoad
    \/ ParseReqLine
    \/ ParseTestRow
    \/ ParseRiskRow
    \/ ParseCommit
    \/ NextParser
    \/ DiscoverGapsMining
    \/ FindSimpleGaps
    \/ ApproveSuggestion

Spec == Init /\ [][Next]_vars

MiningRan == pc \in {"aborted", "no_rules", "no_exceptions", "gaps"}

----------------------------------------------------------------------------
(* The mining functions on their own: discover_rules and find_exceptions   *)
(* applied to feature tables drawn from a bounded set                      *)

Baskets == {{t, c, k} : t \in TestStatus, c \in CodeStatus, k \in RiskStatus}

\* the id of row i of a drawn table: ids repeat once the rows outnumber
\* the requirement ids
RowId(i) == ((i - 1) % MaxReqs) + 1

\* n rows carrying basket b, with ids first, first + 1, ...
Block(first, n, b) == [i \in 1..n |-> [id |-> first + i - 1, items |-> b]]

TableOfRows(rws) ==
    [columns |-> UNION {rws[i].items : i \in DOMAIN rws},
     has_id |-> TRUE,
     rows |-> rws]

\* 8 rows {NO_TEST,HAS_CODE,NO_RISK}, 2 rows {HAS_TEST,HAS_CODE,NO_RISK}
TableE2E1 ==
    TableOfRows(Block(1, 8, {"NO_TEST", "HAS_CODE", "NO_RISK"})
                \o Block(9, 2, {"HAS_TEST", "HAS_CODE", "NO_RISK"}))

\* 9 rows {HAS_RISK,HAS_TEST}, 1 row {HAS_RISK,NO_TEST}, 5 rows {NO_RISK,NO_TEST}
TableE2E2 ==
    TableOfRows(Block(1, 9, {"HAS_RISK", "HAS_TEST"})
                \o Block(10, 1, {"HAS_RISK", "NO_TEST"})
                \o Block(11, 5, {"NO_RISK", "NO_TEST"}))

\* one tested requirement among 100 rows (support 0.01) and among 101
TableRare(n) ==
    TableOfRows(Block(1, n, {"NO_TEST", "NO_CODE", "NO_RISK"})
                \o Block(n + 1, 1, {"HAS_TEST", "HAS_CODE", "NO_RISK"}))

InputTables ==
    {TableOfRows([i \in DOMAIN f |-> [id |-> RowId(i), items |-> f[i]]]) :
        f \in UNION {[1..m -> Baskets] : m \in 0..MaxRows}}
      \cup {TableE2E1, TableE2E2, TableRare(99), TableRare(100)}

\* rule frames a caller may pass with a table: one rule predicting
\* HAS_TEST from columns of the table
SuppliedRules(table) ==
    IF "HAS_TEST" \notin table.columns THEN {}
    ELSE {<<[antecedents |-> A,
             consequents |-> {"HAS_TEST"},
             support |-> [num |-> SupportCount(table.rows, A \cup {"HAS_TEST"}),
                          den |-> Len(table.rows)],
             confidence |-> [num |-> SupportCount(table.rows, A \cup {"HAS_TEST"}),
                             den |-> SupportCount(table.rows, A)]]>> :
            A \in {B \in (SUBSET (table.columns \ {"HAS_TEST"})) \ {{}} :
                     Cardinality(B) <= 2 /\ SupportCount(table.rows, B) > 0}}

InitMining ==
    /\ requirements = {} /\ tests = {} /\ commits = {} /\ risks = {}
    /\ verifies = {} /\ implements = {} /\ mitigates = {}
    /\ df \in InputTables
    /\ text_map = {}
    /\ rules = EmptyFrame
    /\ exceptions = NoGaps
    /\ pc = "input"
    /\ hashseed \in HashOrders
    /\ previous = NoRun
    /\ suggestions = <<>> /\ patterns = <<>> /\ llm_out = <<>>
    /\ store = EmptyStore

CallDiscoverRules ==
    /\ pc = "input"
    /\ rules' = discover_rules(df)
    /\ df' = DfAfterDrop(df)
    /\ pc' = "discovered"
    /\ UNCHANGED process
    /\ UNCHANGED bridge
    /\ UNCHANGED <<graph, text_map, exceptions>>

SupplyRules ==
    /\ pc = "input"
    /\ \E rls \in SuppliedRules(df) : rules' = [raised |-> FALSE, rules |-> rls]
    /\ pc' = "supplied"
    /\ UNCHANGED process
    /\ UNCHANGED bridge
    /\ UNCHANGED <<graph, df, text_map, exceptions>>

CallFindExceptions ==
    /\ pc \in {"discovered", "supplied"}
    /\ ~rules.raised
    /\ exceptions' = find_exceptions(df, rules.rules)
    /\ pc' = IF pc = "discovered" THEN "exceptions" ELSE "exceptions_supplied"
    /\ UNCHANGED process
    /\ UNCHANGED bridge
    /\ UNCHANGED <<graph, df, text_map, rules>>

NextMining == CallDiscoverRules \/ SupplyRules \/ CallFindExceptions

SpecMining == InitMining /\ [][NextMining]_vars

----------------------------------------------------------------------------
(* Properties of find_exceptions and discover_rules (SpecMining) *)

HT == "HAS_TEST"

Ids(s) == [i \in DOMAIN s |-> s[i].id]

\* the rows on which every antecedent column of the rule is true and
\* HAS_TEST is false
ViolatingRows(table, rule) ==
    SelectSeq(table.rows, LAMBDA r : rule.antecedents \subseteq r.items
                                     /\ HT \notin r.items)

\* the gap records that name the rule
GapsOfRule(gaps, rule) ==
    SelectSeq(gaps, LAMBDA g : /\ Range(g.violated_rule[2]) = rule.antecedents
                               /\ Range(g.violated_rule[4]) = rule.consequents)

ExceptionsFound == pc \in {"exceptions", "exceptions_supplied"}

\* C1: find_exceptions reports a row as a violation of rule R iff every
\* antecedent column of R is true and HAS_TEST is false on that row (the gap
\* records naming R are, in order, the ids of exactly those rows, and every
\* gap record names a rule passed); a requirement whose rows satisfy every
\* rule they match has no gap record.
C1_ViolationIff ==
    ExceptionsFound =>
        /\ ~exceptions.raised
        /\ \A j \in DOMAIN rules.rules :
             Ids(GapsOfRule(exceptions.gaps, rules.rules[j]))
               = Ids(ViolatingRows(df, rules.rules[j]))
        /\ \A i \in DOMAIN exceptions.gaps :
             \E j \in DOMAIN rules.rules :
                GapsOfRule(<<exceptions.gaps[i]>>, rules.rules[j]) # <<>>
        /\ \A i \in DOMAIN df.rows :
             (\A j \in DOMAIN rules.rules :
                 rules.rules[j].antecedents \subseteq df.rows[i].items
                    => HT \in df.rows[i].items)
             /\ (\A k \in DOMAIN df.rows :
                    df.rows[k].id = df.rows[i].id => df.rows[k] = df.rows[i])
             => \A g \in DOMAIN exceptions.gaps :
                    exceptions.gaps[g].id # df.rows[i].id

\* a rule with two antecedent columns, with a row that violates it and a
\* row that matches one antecedent column only
C1_Witness ==
    /\ ExceptionsFound
    /\ \E j \in DOMAIN rules.rules :
         /\ Cardinality(rules.rules[j].antecedents) = 2
         /\ ViolatingRows(df, rules.rules[j]) # <<>>
         /\ \E i \in DOMAIN df.rows :
              /\ HT \notin df.rows[i].items
              /\ rules.rules[j].antecedents \cap df.rows[i].items # {}
              /\ ~(rules.rules[j].antecedents \subseteq df.rows[i].items)

\* C2: every rule returned by discover_rules has the consequent {HAS_TEST}.
C2_ConsequentIsHasTest ==
    pc = "discovered" =>
        \A j \in DOMAIN rules.rules : rules.rules[j].consequents = {HT}

\* rules were returned for a table on which other columns are predictable too
C2_Witness ==
    /\ pc = "discovered"
    /\ Len(rules.rules) >= 2
    /\ \E i \in DOMAIN df.rows : {"HAS_CODE", "HAS_RISK", HT} \subseteq df.rows[i].items

\* C3: every rule returned by discover_rules has a confidence between 0
\* and 1 and of at least 0.5, the confidence being the number of rows with
\* antecedent and consequent true over the number of rows with the
\* antecedent true.
C3_ConfidenceBounds ==
    pc = "discovered" =>
        \A j \in DOMAIN rules.rules :
            LET r == rules.rules[j]
            IN /\ r.confidence.den > 0
               /\ r.confidence.num >= 0
               /\ r.confidence.num <= r.confidence.den
               /\ 2 * r.confidence.num >= r.confidence.den
               /\ r.confidence.num * SupportCount(df.rows, r.antecedents)
                    = r.confidence.den
                        * SupportCount(df.rows, r.antecedents \cup r.consequents)

\* a rule at the threshold (confidence 1/2) was returned, and one below 1
C3_Witness ==
    /\ pc = "discovered"
    /\ \E j \in DOMAIN rules.rules :
         2 * rules.rules[j].confidence.num = rules.rules[j].confidence.den
    /\ \E j \in DOMAIN rules.rules :
         /\ rules.rules[j].confidence.num < rules.rules[j].confidence.den
         /\ 2 * rules.rules[j].confidence.num > rules.rules[j].confidence.den

\* the antecedents A of the rules A -> {HAS_TEST} that qualify on the table:
\* support of A and HAS_TEST at least 0.01, confidence at least 0.5
QualifyingAntecedents(table) ==
    {A \in (SUBSET (table.columns \ {HT})) \ {{}} :
        /\ Len(table.rows) > 0
        /\ 100 * SupportCount(table.rows, A \cup {HT}) >= Len(table.rows)
        /\ 2 * SupportCount(table.rows, A \cup {HT}) >= SupportCount(table.rows, A)}

\* C4: on a non-empty table discover_rules returns exactly the rules
\* (A, {HAS_TEST}) with A a non-empty set of columns without HAS_TEST,
\* support(A + HAS_TEST) >= 0.01 and support(A + HAS_TEST)/support(A) >= 0.5,
\* each once.
C4_ExactRuleSet ==
    pc = "discovered" /\ df.rows # <<>> =>
        /\ {<<rules.rules[j].antecedents, rules.rules[j].consequents>> :
                j \in DOMAIN rules.rules}
             = {<<A, {HT}>> : A \in QualifyingAntecedents(df)}
        /\ \A i \in DOMAIN rules.rules, j \in DOMAIN rules.rules :
              rules.rules[i].antecedents = rules.rules[j].antecedents => i = j

\* the table of 100 rows on which HAS_TEST has support exactly 0.01
C4_Witness ==
    /\ pc = "discovered"
    /\ df = TableRare(99)
    /\ rules.rules # <<>>

\* C8: discover_rules returns the empty rule set without raising on the
\* empty table and whenever no rule about HAS_TEST qualifies, and
\* find_exceptions returns the empty list for an empty rule set.
C8_EmptyNeverError ==
    /\ pc = "discovered" => ~rules.raised
    /\ pc = "discovered" /\ QualifyingAntecedents(df) = {} => rules = EmptyFrame
    /\ ExceptionsFound /\ rules.rules = <<>> => exceptions = NoGaps

\* the empty table went through discover_rules and find_exceptions
C8_Witness ==
    /\ pc = "exceptions"
    /\ df.rows = <<>>
    /\ rules = EmptyFrame
    /\ exceptions = NoGaps

\* C9: on the table of 9 rows {HAS_RISK,HAS_TEST}, 1 row {HAS_RISK,NO_TEST}
\* and 5 rows {NO_RISK,NO_TEST}, discover_rules returns the rule
\* {HAS_RISK} -> {HAS_TEST} with confidence 9/10 and find_exceptions returns
\* one gap record, for the single {HAS_RISK,NO_TEST} row (row 10).
C9_E2E2 ==
    df = TableE2E2 =>
        /\ pc \in {"discovered", "exceptions"} =>
             \E j \in DOMAIN rules.rules :
                /\ rules.rules[j].antecedents = {"HAS_RISK"}
                /\ rules.rules[j].consequents = {HT}
                /\ rules.rules[j].confidence = [num |-> 9, den |-> 10]
        /\ pc = "exceptions" =>
             /\ Len(exceptions.gaps) = 1
             /\ exceptions.gaps[1].id = 10
             /\ df.rows[10].items = {"HAS_RISK", "NO_TEST"}

C9_Witness == pc = "exceptions" /\ df = TableE2E2 /\ ~exceptions.raised

\* C10: on the table of 8 rows {NO_TEST,HAS_CODE,NO_RISK} and 2 rows
\* {HAS_TEST,HAS_CODE,NO_RISK}, discover_rules does not accept
\* {HAS_CODE} -> {HAS_TEST} and returns the empty rule set.
C10_E2E1 ==
    pc = "discovered" /\ df = TableE2E1 =>
        /\ rules = EmptyFrame
        /\ 10 * SupportCount(df.rows, {"HAS_CODE", HT})
             = 2 * SupportCount(df.rows, {"HAS_CODE"})

C10_Witness == pc = "discovered" /\ df = TableE2E1

----------------------------------------------------------------------------
(* Properties of extract_features_for_mining (Spec) *)

RowsOf(r) == {i \in DOMAIN df.rows : df.rows[i].id = r}

\* C5: the feature table has exactly one row per Requirement, no id twice.
C5_OneRowPerRequirement ==
    MiningRan =>
        /\ \A r \in requirements : Cardinality(RowsOf(r)) = 1
        /\ \A i \in DOMAIN df.rows : df.rows[i].id \in requirements

\* C6: on every row exactly one of each status pair is set, and HAS_TEST,
\* HAS_CODE, HAS_RISK are set exactly when the requirement has a VERIFIES,
\* IMPLEMENTS, MITIGATES relation.
C6_StatusExclusive ==
    MiningRan =>
        \A i \in DOMAIN df.rows :
            LET row == df.rows[i]
            IN /\ Cardinality(row.items \cap TestStatus) = 1
               /\ Cardinality(row.items \cap CodeStatus) = 1
               /\ Cardinality(row.items \cap RiskStatus) = 1
               /\ row.items \subseteq df.columns
               /\ HT \in row.items <=> \E t \in tests : <<t, row.id>> \in verifies
               /\ "HAS_CODE" \in row.items
                    <=> \E c \in commits : <<c, row.id>> \in implements
               /\ "HAS_RISK" \in row.items
                    <=> \E k \in risks : <<row.id, k>> \in mitigates

\* a table with a tested and an untested row, an implemented row without
\* risk and a row with a risk but no code
C6_Witness ==
    /\ MiningRan
    /\ \E i \in DOMAIN df.rows, j \in DOMAIN df.rows :
         /\ {HT, "HAS_CODE", "NO_RISK"} \subseteq df.rows[i].items
         /\ {"NO_TEST", "NO_CODE", "HAS_RISK"} \subseteq df.rows[j].items

HasNoRelation(r) ==
    /\ ~\E t \in tests : <<t, r>> \in verifies
    /\ ~\E c \in commits : <<c, r>> \in implements
    /\ ~\E k \in risks : <<r, k>> \in mitigates

\* C7: a Requirement without any of the three relations has a row with
\* NO_TEST, NO_CODE and NO_RISK set, and with zero Requirement entities the
\* table is empty.
C7_NoRelationRow ==
    MiningRan =>
        /\ \A r \in requirements :
             HasNoRelation(r) =>
                /\ RowsOf(r) # {}
                /\ \A i \in RowsOf(r) :
                      df.rows[i].items = {"NO_TEST", "NO_CODE", "NO_RISK"}
        /\ requirements = {} =>
             /\ df = EmptyTable
             /\ text_map = {}
             /\ pc = "aborted"

\* a requirement without relations next to a tested one
C7_Witness ==
    /\ MiningRan
    /\ \E r \in requirements, q \in requirements :
         /\ HasNoRelation(r)
         /\ \E t \in tests : <<t, q>> \in verifies

----------------------------------------------------------------------------
(* One gap record per (rule, violating row) pair (SpecMining) *)

RECURSIVE SumLen(_)
SumLen(ss) == IF ss = <<>> THEN 0 ELSE Len(Head(ss)) + SumLen(Tail(ss))

\* C11: find_exceptions emits one gap record per (rule, violating row)
\* pair, without deduplication by identifier: the records naming a rule are
\* as many as its violating rows, each carries that rule's confidence, and
\* the length of the result is the number of such pairs.
C11_OneRecordPerPair ==
    ExceptionsFound =>
        /\ Len(exceptions.gaps)
             = SumLen([j \in DOMAIN rules.rules |-> ViolatingRows(df, rules.rules[j])])
        /\ \A j \in DOMAIN rules.rules :
             LET recs == GapsOfRule(exceptions.gaps, rules.rules[j])
             IN /\ Len(recs) = Len(ViolatingRows(df, rules.rules[j]))
                /\ \A i \in DOMAIN recs :
                      recs[i].confidence = rules.rules[j].confidence

\* a row whose id no other row carries violates two rules of different
\* confidence and has two gap records
C11_Witness ==
    /\ pc = "exceptions"
    /\ \E a \in DOMAIN exceptions.gaps, b \in DOMAIN exceptions.gaps :
         /\ a # b
         /\ exceptions.gaps[a].id = exceptions.gaps[b].id
         /\ exceptions.gaps[a].violated_rule # exceptions.gaps[b].violated_rule
         /\ exceptions.gaps[a].confidence # exceptions.gaps[b].confidence
         /\ Cardinality({i \in DOMAIN df.rows :
                            df.rows[i].id = exceptions.gaps[a].id}) = 1


----------------------------------------------------------------------------
(* Order of the rules returned by discover_rules (SpecMining) *)

\* a/b < c/d for fractions with positive denominators
FracLess(x, y) == x.num * y.den < y.num * x.den

\* C17 (as stated): the rules returned by discover_rules are ordered by
\* descending confidence, and rules of equal confidence by antecedent name.
C17_SortedByConfidence ==
    (pc = "discovered" /\ ~rules.raised) =>
        \A i \in DOMAIN rules.rules, j \in DOMAIN rules.rules :
            i < j =>
               \/ FracLess(rules.rules[j].confidence, rules.rules[i].confidence)
               \/ /\ ~FracLess(rules.rules[i].confidence, rules.rules[j].confidence)
                  /\ Mask(rules.rules[i].antecedents) >= Mask(rules.rules[j].antecedents)

\* C17 (amended): the rules returned by discover_rules are never sorted; they
\* are in the order apriori produced their itemsets: fewer antecedent columns
\* first, and among antecedents of the same size in the order of the table's
\* columns, whatever the confidences are.
C17_AprioriOrder ==
    (pc = "discovered" /\ ~rules.raised) =>
        \A i \in DOMAIN rules.rules, j \in DOMAIN rules.rules :
            i < j =>
               LET A == rules.rules[i].antecedents
                   B == rules.rules[j].antecedents
               IN \/ Cardinality(A) < Cardinality(B)
                  \/ /\ Cardinality(A) = Cardinality(B)
                     /\ Mask(A \cup {HT}) > Mask(B \cup {HT})

\* two rules were returned, the one of lower confidence first
C17_Witness ==
    /\ pc = "discovered"
    /\ ~rules.raised
    /\ \E i \in DOMAIN rules.rules, j \in DOMAIN rules.rules :
          /\ i < j
          /\ Cardinality(rules.rules[i].antecedents)
                = Cardinality(rules.rules[j].antecedents)
          /\ FracLess(rules.rules[i].confidence, rules.rules[j].confidence)

----------------------------------------------------------------------------
(* The same table mined twice, the dashboard restarted in between *)

InitRuns ==
    /\ requirements = {} /\ tests = {} /\ commits = {} /\ risks = {}
    /\ verifies = {} /\ implements = {} /\ mitigates = {}
    /\ df \in InputTables
    /\ text_map = {}
    /\ rules = EmptyFrame
    /\ exceptions = NoGaps
    /\ pc = "run0"
    /\ hashseed \in HashOrders
    /\ previous = NoRun
    /\ suggestions = <<>> /\ patterns = <<>> /\ llm_out = <<>>
    /\ store = EmptyStore

\* discover_rules(df) then find_exceptions(df, rules), as the handler calls them
RunMining ==
    /\ pc \in {"run0", "run1"}
    /\ previous' = [rules |-> rules.rules, gaps |-> exceptions.gaps]
    /\ \E rl \in {discover_rules(df)} :
          /\ rules' = rl
          /\ exceptions' = IF rl.raised THEN NoGaps
                           ELSE find_exceptions(df, rl.rules)
    /\ pc' = IF pc = "run0" THEN "run1" ELSE "run2"
    /\ UNCHANGED <<graph, df, text_map, hashseed>>
    /\ UNCHANGED bridge

\* the dashboard is started again: a new interpreter process, whose string
\* hashes are seeded afresh
RestartProcess ==
    /\ pc = "run1"
    /\ hashseed' \in HashOrders
    /\ UNCHANGED <<graph, df, text_map, rules, exceptions, pc, previous>>
    /\ UNCHANGED bridge

NextRuns == RunMining \/ RestartProcess

SpecRuns == InitRuns /\ [][NextRuns]_vars

RuleSet(rls) == {rls[i] : i \in DOMAIN rls}

\* the gap records as a multiset: how many times each record occurs
GapCount(gaps, g) == Cardinality({i \in DOMAIN gaps : gaps[i] = g})

SameMultiset(g1, g2) ==
    /\ Len(g1) = Len(g2)
    /\ \A i \in DOMAIN g1 : GapCount(g1, g1[i]) = GapCount(g2, g1[i])

\* C12: two runs of discover_rules on the same feature table yield the same
\* rule set, and two runs of find_exceptions on the same table and rules
\* yield the same multiset of gap records.
C12_Deterministic ==
    pc = "run2" =>
        /\ RuleSet(rules.rules) = RuleSet(previous.rules)
        /\ SameMultiset(exceptions.gaps, previous.gaps)

\* the part of C12 about discover_rules alone
C12_SameRuleSet ==
    pc = "run2" => RuleSet(rules.rules) = RuleSet(previous.rules)


----------------------------------------------------------------------------
(* Tables and rules a caller may pass, well formed or not *)

\* the bound on the rows of a passed table
MaxGivenRows == MaxReqs

\* a table whose id column may be missing; its status columns are those
\* observed, so any other status column is absent from it
GivenTables ==
    {[TableOfRows([i \in DOMAIN f |-> [id |-> RowId(i), items |-> f[i]]])
         EXCEPT !.has_id = h] :
        f \in UNION {[1..m -> Baskets] : m \in 1..MaxGivenRows}, h \in BOOLEAN}

GivenConfidence == [num |-> 3, den |-> 4]

\* a one-rule frame over any status columns, present in the table or not,
\* with one or two consequent columns
GivenRules ==
    {<<[antecedents |-> A,
        consequents |-> C,
        support |-> GivenConfidence,
        confidence |-> GivenConfidence]>> :
       A \in {B \in SUBSET Items : Cardinality(B) \in 1..2},
       C \in (SUBSET {"HAS_TEST", "HAS_CODE"}) \ {{}}}

InitGiven ==
    /\ requirements = {} /\ tests = {} /\ commits = {} /\ risks = {}
    /\ verifies = {} /\ implements = {} /\ mitigates = {}
    /\ df \in GivenTables
    /\ text_map = {}
    /\ rules = EmptyFrame
    /\ exceptions = NoGaps
    /\ pc = "input"
    /\ hashseed \in HashOrders
    /\ previous = NoRun
    /\ suggestions = <<>> /\ patterns = <<>> /\ llm_out = <<>>
    /\ store = EmptyStore

SupplyGivenRules ==
    /\ pc = "input"
    /\ \E rls \in GivenRules :
          /\ rls[1].antecedents \cap rls[1].consequents = {}
          /\ rules' = [raised |-> FALSE, rules |-> rls]
    /\ pc' = "supplied"
    /\ UNCHANGED process
    /\ UNCHANGED bridge
    /\ UNCHANGED <<graph, df, text_map, exceptions>>

NextGiven == CallDiscoverRules \/ SupplyGivenRules \/ CallFindExceptions

SpecGiven == InitGiven /\ [][NextGiven]_vars

GivenRule == rules.rules[1]

GapIds(gaps) == {gaps[i].id : i \in DOMAIN gaps}

NamesAbsentColumn ==
    ~((GivenRule.antecedents \cup GivenRule.consequents) \subseteq df.columns)

PresentViolations ==
    {i \in DOMAIN df.rows :
        /\ (GivenRule.antecedents \cap df.columns) \subseteq df.rows[i].items
        /\ (GivenRule.consequents \cap df.columns) \cap df.rows[i].items = {}}

C18_AnyConsequentFalse ==
    (/\ pc = "exceptions_supplied"
     /\ df.has_id
     /\ ~NamesAbsentColumn
     /\ Cardinality(GivenRule.consequents) > 1) =>
        \A i \in DOMAIN df.rows :
            (/\ GivenRule.antecedents \subseteq df.rows[i].items
             /\ ~(GivenRule.consequents \subseteq df.rows[i].items))
              => df.rows[i].id \in GapIds(exceptions.gaps)


----------------------------------------------------------------------------
(* generate_suggestions on lists of patterns drawn from a bounded set *)

PatternLists ==
    UNION {[1..m -> {[id |-> r, text |-> Text(r)] : r \in ReqIds}] : m \in 0..MaxReqs}

InitSuggest ==
    /\ requirements = {} /\ tests = {} /\ commits = {} /\ risks = {}
    /\ verifies = {} /\ implements = {} /\ mitigates = {}
    /\ df = EmptyTable
    /\ text_map = {}
    /\ rules = EmptyFrame
    /\ exceptions = NoGaps
    /\ pc = "patterns"
    /\ hashseed \in HashOrders
    /\ previous = NoRun
    /\ suggestions = <<>>
    /\ patterns \in PatternLists
    /\ llm_out = <<>>
    /\ store = EmptyStore

GenerateSuggestions ==
    /\ pc = "patterns"
    /\ \E responses \in [DOMAIN patterns -> LLMResponses] :
          /\ llm_out' = responses
          /\ suggestions' = generate_suggestions(patterns, responses)
    /\ pc' = "suggested"
    /\ UNCHANGED <<graph, df, text_map, rules, exceptions, process, patterns, store>>

NextSuggest == GenerateSuggestions

SpecSuggest == InitSuggest /\ [][NextSuggest]_vars

\* the service answered, and with a test identifier, a name and a status
WellFormed(response) ==
    response.ok /\ \E t \in TestIds : response.content = Proposal(t)

\* C14: an item whose suggestion output is malformed, the failure of the
\* suggestion service included, is skipped; the output of
\* generate_suggestions holds exactly one record per item with a well-formed
\* proposal, in input order.
C14_OneRecordPerWellFormed ==
    pc = "suggested" =>
        suggestions =
          SeqConcat([i \in DOMAIN patterns |->
             IF WellFormed(llm_out[i])
             THEN <<[req_id |-> patterns[i].id,
                     req_text |-> patterns[i].text,
                     test_id |-> <<llm_out[i].content[1]>>,
                     test_name |-> <<llm_out[i].content[2]>>,
                     status |-> <<llm_out[i].content[3]>>]>>
             ELSE <<>>])

\* the part of C14 that holds: an output with fewer than two commas is
\* skipped and the other items keep their records
C14_FewCommasSkipped ==
    pc = "suggested" =>
        Len(suggestions) = Cardinality({i \in DOMAIN patterns :
                                          Len(get_llm_suggestion(llm_out[i])) >= 3})

----------------------------------------------------------------------------
(* apply_suggestion_to_graph applied three times to a store *)

Stores ==
    UNION {UNION {{StoreOf([requirements |-> R, tests |-> T, verifies |-> V]) :
                     V \in SUBSET (T \X R)} : T \in SUBSET TestIds} :
             R \in SUBSET ReqIds}

\* the suggestions a session may hold: any requirement id, and as test id a
\* proposed identifier or the first part of an error text
GivenSuggestions ==
    UNION {{SuggestionOf([id |-> r, text |-> Text(r)], response)[1] :
              response \in {x \in LLMResponses :
                               Len(get_llm_suggestion(x)) >= 3}} : r \in ReqIds}

InitApply ==
    /\ requirements = {} /\ tests = {} /\ commits = {} /\ risks = {}
    /\ verifies = {} /\ implements = {} /\ mitigates = {}
    /\ df = EmptyTable
    /\ text_map = {}
    /\ rules = EmptyFrame
    /\ exceptions = NoGaps
    /\ pc = "apply0"
    /\ hashseed \in HashOrders
    /\ previous = NoRun
    /\ \E s \in GivenSuggestions : suggestions = <<s>>
    /\ patterns = <<>>
    /\ llm_out = <<>>
    /\ store \in Stores

\* apply_suggestion_to_graph(driver, s), the store before it kept aside
ApplyAgain ==
    /\ pc \in {"apply0", "apply1", "apply2"}
    /\ previous' = store
    /\ store' = apply_suggestion_to_graph(store, suggestions[1])
    /\ pc' = CASE pc = "apply0" -> "apply1"
              [] pc = "apply1" -> "apply2"
              [] pc = "apply2" -> "apply3"
    /\ UNCHANGED <<graph, df, text_map, rules, exceptions, hashseed,
                   suggestions, patterns, llm_out>>

NextApply == ApplyAgain

SpecApply == InitApply /\ [][NextApply]_vars

AppliedTests ==
    MatchNodes(store.nodes, "Test", TestKey(suggestions[1].test_id))

AppliedRequirements ==
    MatchNodes(store.nodes, "Requirement", suggestions[1].req_id)

AppliedEdges ==
    {i \in DOMAIN store.edges : /\ store.edges[i].from \in AppliedTests
                                /\ store.edges[i].to \in AppliedRequirements}

\* C15: applying the same suggestion two or more times in a row leaves the
\* graph as applying it once does, with at most one Test of the suggestion's
\* test identifier and at most one VERIFIES relation from it to the target
\* Requirement.
C15_Idempotent ==
    /\ pc \in {"apply2", "apply3"} => store = previous
    /\ pc \in {"apply1", "apply2", "apply3"} =>
          /\ Cardinality(AppliedTests) <= 1
          /\ Cardinality(AppliedEdges) <= 1

\* the suggestion was applied three times; the store holds one Test of its
\* identifier, carrying the suggested name, and one relation to its target
C15_Witness ==
    /\ pc = "apply3"
    /\ Cardinality(AppliedTests) = 1
    /\ Cardinality(AppliedEdges) = 1
    /\ \A i \in AppliedTests : store.nodes[i].name = suggestions[1].test_name
    /\ Len(store.nodes) > 1


----------------------------------------------------------------------------
(* The mining run and the suggestion engine on the dashboard (Spec) *)

MiningPositions == {"aborted", "no_rules", "no_exceptions", "gaps", "failed"}

\* C13: the mining run (extract_features_for_mining, discover_rules,
\* find_exceptions, and the suggestions generated from the gap records) and
\* the search for unverified requirements leave the graph unchanged, the
\* feature table the run ends with is the one extracted, and among the steps
\* of the dashboard outside loading only the approval of a suggestion
\* changes the graph.
C13_OnlyApprovalWrites ==
    [][/\ (pc' \in MiningPositions \cup {"simple_gaps", "compliant"})
            => graph' = graph
       /\ (pc' \in MiningPositions)
            => df' = extract_features_for_mining(Graph).df
       /\ (graph' # graph) => (pc' = "approved" \/ Loading \/ Loading')]_vars

\* a mining run found gaps in a graph that has relations, and suggestions
\* were generated from them
C13_Witness ==
    /\ pc = "gaps"
    /\ suggestions # <<>>
    /\ verifies # {}
    /\ df.has_id
    /\ df = extract_features_for_mining(Graph).df

NoRequirementTested ==
    \A r \in requirements : ~\E t \in tests : <<t, r>> \in verifies

\* C19: the columns of the feature table are exactly the values observed in
\* at least one row; when no requirement has a test there is no HAS_TEST
\* column, discover_rules returns no rule and the mining run reports no gap,
\* although every requirement is unverified.
C19_ObservedColumnsOnly ==
    (MiningRan \/ pc = "failed") =>
        /\ df.columns = UNION {df.rows[i].items : i \in DOMAIN df.rows}
        /\ (requirements # {} /\ NoRequirementTested) =>
              /\ HT \notin df.columns
              /\ pc = "no_rules"
              /\ rules.rules = <<>>
              /\ exceptions.gaps = <<>>
              /\ Len(find_unverified_req_patterns(Graph)) = Cardinality(requirements)

\* a mining run on a graph with requirements, none of them tested
C19_Witness ==
    /\ pc = "no_rules"
    /\ Cardinality(requirements) > 1
    /\ NoRequirementTested
    /\ HT \notin df.columns
    /\ exceptions.gaps = <<>>

UnverifiedIds ==
    LET pats == find_unverified_req_patterns(Graph)
    IN {pats[i].id : i \in DOMAIN pats}

\* C20: every gap record of the full mining run names a Requirement without
\* VERIFIES relation in the graph: the identifiers flagged by mining are
\* among those find_unverified_req_patterns returns, and a requirement with
\* a verifying test is never flagged.
C20_GapsAreUnverified ==
    (MiningRan \/ pc = "failed") =>
        \A i \in DOMAIN exceptions.gaps :
            /\ exceptions.gaps[i].id \in UnverifiedIds
            /\ ~\E t \in tests : <<t, exceptions.gaps[i].id>> \in verifies

\* gaps were reported in a graph where another requirement is verified
C20_Witness ==
    /\ pc = "gaps"
    /\ exceptions.gaps # <<>>
    /\ \E r \in requirements : \E t \in tests : <<t, r>> \in verifies
    /\ \A i \in DOMAIN exceptions.gaps : exceptions.gaps[i].id \in UnverifiedIds


\* C21: the side mapping returned by extract_features_for_mining has an
\* entry for every identifier of the feature table's id column, so every gap
\* record of find_exceptions on that table is resolved to a requirement text
\* when the {id, text} pairs are built; the lookup never misses.
C21_LookupNeverMisses ==
    (pc \in MiningPositions) =>
        /\ \A i \in DOMAIN df.rows : HasKey(text_map, df.rows[i].id)
        /\ \A e \in text_map, f \in text_map : e[1] = f[1] => e = f
        /\ \A i \in DOMAIN exceptions.gaps : HasKey(text_map, exceptions.gaps[i].id)
        /\ (~rules.raised /\ ~exceptions.raised) => pc # "failed"
        /\ pc = "gaps" =>
              /\ Len(patterns) = Len(exceptions.gaps)
              /\ \A i \in DOMAIN patterns :
                    /\ patterns[i].id = exceptions.gaps[i].id
                    /\ patterns[i].text = Text(patterns[i].id)

\* a mining run reported gaps and every one of them got its text
C21_Witness ==
    /\ pc = "gaps"
    /\ patterns # <<>>
    /\ Len(patterns) = Len(exceptions.gaps)
    /\ \A i \in DOMAIN patterns : <<patterns[i].id, patterns[i].text>> \in text_map


----------------------------------------------------------------------------
(* Approving suggestions on the dashboard (Spec) *)

\* a step of the "Approve Suggestion" button that applied suggestion s
Approved(s) ==
    /\ pc' = "approved"
    /\ \E i \in DOMAIN suggestions :
          suggestions[i] = s /\ suggestions' = Pop(suggestions, i)

\* C22: whenever apply_suggestion_to_graph returns for an approved
\* suggestion, the graph holds the Test of the suggestion's test identifier
\* and a VERIFIES relation from it to the suggestion's Requirement, which is
\* no longer reported as unverified; no Test is left without its relation,
\* also when the graph was cleared or reloaded since the suggestion was made.
C22_TestAndRelation ==
    [][\A s \in Range(suggestions) :
          Approved(s) =>
             /\ TestKey(s.test_id) \in tests'
             /\ <<TestKey(s.test_id), s.req_id>> \in verifies'
             /\ s.req_id \in requirements']_vars

\* the part of C22 that holds: the Test of the suggestion is in the graph,
\* and so is its relation when the Requirement still is
C22_TestAlways ==
    [][\A s \in Range(suggestions) :
          Approved(s) =>
             /\ TestKey(s.test_id) \in tests'
             /\ s.req_id \in requirements'
                   => <<TestKey(s.test_id), s.req_id>> \in verifies']_vars

\* C23: after any sequence of dashboard actions every pending suggestion
\* refers to a Requirement that exists in the graph and has no verifying
\* Test; approving a suggestion leaves no suggestion for a requirement that
\* is now verified.
C23_PendingAreUnverified ==
    ~Loading =>
        \A i \in DOMAIN suggestions :
            /\ suggestions[i].req_id \in requirements
            /\ suggestions[i].req_id \in UnverifiedIds

\* the part of C23 that holds: the approved suggestion, and only it, leaves
\* the list
C23_PopsOne ==
    [][(pc' = "approved") =>
          \E i \in DOMAIN suggestions : suggestions' = Pop(suggestions, i)]_vars

====
